---- MODULE Spec2Model ----
(***************************************************************************)
(* The ELT pipeline of uv_database_update: staging of the CRM spreadsheets *)
(* (elt_extract.py), the dlt load into the raw schema (elt_load.py,        *)
(* elt_sources.py) and the raw -> bronze reconciliation                    *)
(* (elt_transform.py), over the tables of TABLE_CONFIG (elt_config.py).    *)
(***************************************************************************)
EXTENDS Bags, FiniteSets, Integers, Sequences, TLC

VARIABLES
    raw,        \* raw[t]: the bag of rows of table raw.<t>
    bronze,     \* bronze[t]: the bag of rows of table bronze.<t>
    results,    \* the dict transform_to_bronze builds: table -> outcome
    pc,         \* where the pipeline is
    idx,        \* position of transform_to_bronze's loop in TABLE_CONFIG
    fault,      \* the statement that raised in the last table's unit, or "none"
    failures,   \* exceptions raised so far
    calls,      \* completed calls of transform_to_bronze
    bronze0,    \* bronze when the current call of transform_to_bronze began
    raw0,       \* raw when the current call of transform_to_bronze began
    drive,      \* drive[t]: the rows of table t's spreadsheet in the Drive folder
    file_mapping, \* what stage_inputs returned: table -> rows of the local copy
    runlog,     \* the rows of metadata.etl_run_log
    dltState,   \* table -> last_value of the resource's dlt incremental cursor
    batch,      \* table -> the rows table_data yielded in the last load
    runs,       \* pipeline runs started
    exports,    \* rows the CRM added to the spreadsheets
    lastV,      \* table -> greatest incremental value the last run reconciled
    lookup,     \* a call of get_last_filter_end: its argument and what it gave
    parse,      \* a call of parse_drive_filename: filename, year and result
    extraction, \* a call of table_data: the parsed file, the cursor, the rows yielded
    kills,      \* calls of kill_stale_sessions in the current call of transform_to_bronze
    results0,   \* the map the previous call of transform_to_bronze returned
    cli,        \* a run of database_update.main: its arguments and what it wrote
    colexpr,    \* a call of _get_column_expressions: the schemas and the lists built
    sqlload,    \* a call of de_load.save_selected_to_sql
    tagging     \* a call of mp_load.fetch_and_tag_unsubscribed

dbvars == <<raw, bronze, results, idx, fault, failures, calls, bronze0, raw0>>
eltvars == <<drive, file_mapping, runlog, dltState, batch, runs, exports, lastV>>
auxvars == <<lookup, parse, extraction>>
othervars == <<cli, colexpr, sqlload, tagging>>
vars == <<dbvars, pc, eltvars, auxvars, othervars, kills, results0>>

----------------------------------------------------------------------------
(* Bounds of the model *)

\* calendar years of the filenames and of the clock, from FirstYear on
MaxYears == 3
\* rows of metadata.etl_run_log when get_last_filter_end is called on its own
MaxLogRows == 3
\* rows a bronze table holds before the first reconciliation
MaxBronzeRows == 3
\* rows a raw table holds before the first reconciliation
MaxRawRows == 2
\* exceptions raised in one behaviour
MaxFailures == 1
\* pipeline runs in one behaviour
MaxRuns == 2
\* greatest incremental-column value of a spreadsheet row
MaxStamp == 3
\* rows the CRM adds to the spreadsheets in one behaviour
MaxExports == 1

----------------------------------------------------------------------------
(* elt_config.py *)

TableOrder ==
    <<"crm_properties", "crm_buyers", "crm_sellers", "crm_buyers_sellers",
      "crm_leads", "crm_events", "crm_archived">>

TABLE_CONFIG ==
    [t \in {TableOrder[i] : i \in 1..Len(TableOrder)} |->
       CASE t = "crm_properties" ->
              [incremental_column |-> "last_change",
               primary_key |-> <<"reference", "last_change">>,
               write_disposition |-> "merge", year_partitioned |-> FALSE]
         [] t = "crm_leads" ->
              [incremental_column |-> "lastupdate",
               primary_key |-> <<"eventid", "lastupdate">>,
               write_disposition |-> "merge", year_partitioned |-> TRUE]
         [] t = "crm_events" ->
              [incremental_column |-> "eventdate",
               primary_key |-> <<"eventid", "eventdate">>,
               write_disposition |-> "append", year_partitioned |-> TRUE]
         [] OTHER ->
              [incremental_column |-> "createtime",
               primary_key |-> <<"entityid", "createtime">>,
               write_disposition |-> "append", year_partitioned |-> TRUE]]

Tables == DOMAIN TABLE_CONFIG

\* The identifier column and the incremental column of a table's rows.
IdCol(t) == TABLE_CONFIG[t].primary_key[1]
IncCol(t) == TABLE_CONFIG[t].incremental_column

\* Strings the code takes apart are sequences of characters.  Chars[t] is
\* the sequence of the characters of the table name t.
Chars ==
    [crm_properties |->
        <<"c", "r", "m", "_", "p", "r", "o", "p", "e", "r", "t", "i", "e", "s">>,
     crm_buyers |->
        <<"c", "r", "m", "_", "b", "u", "y", "e", "r", "s">>,
     crm_sellers |->
        <<"c", "r", "m", "_", "s", "e", "l", "l", "e", "r", "s">>,
     crm_buyers_sellers |->
        <<"c", "r", "m", "_", "b", "u", "y", "e", "r", "s", "_", "s", "e", "l", "l", "e", "r", "s">>,
     crm_leads |->
        <<"c", "r", "m", "_", "l", "e", "a", "d", "s">>,
     crm_events |->
        <<"c", "r", "m", "_", "e", "v", "e", "n", "t", "s">>,
     crm_archived |->
        <<"c", "r", "m", "_", "a", "r", "c", "h", "i", "v", "e", "d">>]

\* ".xlsx" and "crm_"
XLSX == <<".", "x", "l", "s", "x">>
CRM_ == <<"c", "r", "m", "_">>

\* Mutant: the properties export is known by the name "all_buyers".
ALL_BUYERS == <<"a", "l", "l", "_", "b", "u", "y", "e", "r", "s">>

\* "all_properties"
ALL_PROPERTIES == <<"a", "l", "l", "_", "p", "r", "o", "p", "e", "r", "t", "i", "e", "s">>

\* str.endswith and str.removesuffix
EndsWith(s, suffix) ==
    /\ Len(s) >= Len(suffix)
    /\ SubSeq(s, Len(s) - Len(suffix) + 1, Len(s)) = suffix
RemoveSuffix(s, suffix) ==
    IF EndsWith(s, suffix) THEN SubSeq(s, 1, Len(s) - Len(suffix)) ELSE s

\* str(n) of a natural number
Digit == <<"0", "1", "2", "3", "4", "5", "6", "7", "8", "9">>
RECURSIVE Str(_)
Str(n) ==
    IF n < 10 THEN <<Digit[n + 1]>>
    ELSE Str(n \div 10) \o <<Digit[(n % 10) + 1]>>

\* get_current_year_suffix, with datetime.now().year as its argument
get_current_year_suffix(year) == Str(year)

\* re.match(r"^(.+)_(\d{4})$", base): "$" matches at the end of the string
\* and also before a newline that ends it; "." matches any character but
\* a newline; the groups are the characters before the last "_" and the
\* four digits after it.
IsDigit(c) == \E i \in 1..Len(Digit) : Digit[i] = c
ReMatch(base) ==
    LET core == IF Len(base) > 0 /\ base[Len(base)] = "\n"
                THEN SubSeq(base, 1, Len(base) - 1) ELSE base
        n == Len(core)
    IN  IF /\ n >= 6
           /\ \A i \in (n - 3)..n : IsDigit(core[i])
           /\ core[n - 4] = "_"
           /\ \A i \in 1..(n - 5) : core[i] # "\n"
        THEN [matched |-> TRUE, table_base |-> SubSeq(core, 1, n - 5),
              year_suffix |-> SubSeq(core, n - 3, n)]
        ELSE [matched |-> FALSE, table_base |-> << >>, year_suffix |-> << >>]

\* Mutant: partitions of every year are accepted.
NeverStale(year_suffix, current_yyyy) == FALSE

\* if year_suffix != current_yyyy: return None
StaleYear(year_suffix, current_yyyy) == year_suffix # current_yyyy

\* TABLE_CONFIG.get(table_name): the entries under that name.
ConfigGet(name) == {t \in DOMAIN TABLE_CONFIG : Chars[t] = name}

\* parse_drive_filename(filename) in the calendar year "year"; "None" is
\* Python's None.
parse_drive_filename(filename, year) ==
    IF ~EndsWith(filename, XLSX) THEN "None"
    ELSE LET base == RemoveSuffix(filename, XLSX)
             current_yyyy == get_current_year_suffix(year)
             match == ReMatch(base)
             config == ConfigGet(CRM_ \o match.table_base)
         IN  IF base = ALL_PROPERTIES THEN "crm_properties"
             ELSE IF ~match.matched THEN "None"
             ELSE IF StaleYear(match.year_suffix, current_yyyy) THEN "None"
             ELSE IF \E t \in config : TABLE_CONFIG[t].year_partitioned
             THEN CHOOSE t \in config : TRUE
             ELSE "None"

----------------------------------------------------------------------------
(* Rows.  A row is a function from column names to values.  A raw table    *)
(* has the spreadsheet's columns, among them a stray "unnamed_0" column    *)
(* pandas gives a header-less spreadsheet column; the bronze table has     *)
(* the data columns only.                                                  *)

\* The primary keys of the rows: <<identifier, incremental-column value>>;
\* two versions of record 1 and one of record 2.
Keys == {<<1, 1>>, <<1, 2>>, <<2, 1>>}

BronzeCols(t) == {IdCol(t), IncCol(t), "name"}
RawCols(t) == BronzeCols(t) \cup {"unnamed_0"}

BronzeRow(t, i, s, n) ==
    [c \in BronzeCols(t) |->
       IF c = IdCol(t) THEN i ELSE IF c = IncCol(t) THEN s ELSE n]

RawRow(t, i, s, n) ==
    [c \in RawCols(t) |->
       IF c = IdCol(t) THEN i
       ELSE IF c = IncCol(t) THEN s
       ELSE IF c = "name" THEN n ELSE "nan"]

\* The keys of a staged batch: the later version of record 1, and record 2.
BatchKeys == {<<1, 2>>, <<2, 1>>}

\* The rows a bronze table may hold at the start, and the rows of a batch.
BronzeRows(t) == {BronzeRow(t, k[1], k[2], "Old") : k \in Keys}
RawRows(t) == {RawRow(t, k[1], k[2], "X") : k \in BatchKeys}

RECURSIVE SeqToBag(_)
SeqToBag(s) ==
    IF s = <<>> THEN EmptyBag ELSE SetToBag({Head(s)}) (+) SeqToBag(Tail(s))

BagsUpTo(U, n) == {SeqToBag(s) : s \in UNION {[1..k -> U] : k \in 0..n}}

RECURSIVE SumCounts(_, _)
SumCounts(B, S) ==
    IF S = {} THEN 0
    ELSE LET x == CHOOSE y \in S : TRUE IN B[x] + SumCounts(B, S \ {x})

----------------------------------------------------------------------------
(* elt_transform.py *)

\* SQL NULL: the value of a bronze column the INSERT names no source for.
NULL == -1

UnnamedCols == {"unnamed_0"}
DltCols == {"_dlt_load_id", "_dlt_id"}

\* _get_column_expressions: the raw columns moved to bronze (unnamed
\* dropped, only those that exist in bronze).
OrderedCols(t) == {c \in RawCols(t) : c \notin UnnamedCols /\ c \in BronzeCols(t)}

\* INSERT INTO bronze.t (insert_cols) SELECT select_exprs FROM raw.t, for
\* one row.
Transfer(t, r) ==
    [c \in BronzeCols(t) |-> IF c \in OrderedCols(t) THEN r[c] ELSE NULL]

\* join_condition: bronze.t."col" = raw.t."col" for every primary-key
\* column; an SQL comparison with NULL is not true.
PkCols(t) ==
    LET pk == TABLE_CONFIG[t].primary_key IN {pk[i] : i \in 1..Len(pk)}

JoinCondition(t, b, r) ==
    \A c \in PkCols(t) : b[c] # NULL /\ r[c] # NULL /\ b[c] = r[c]

\* Mutant: the delete keyed by the first primary-key column alone.
DeleteUsingFirstCol(t, B, R) ==
    LET keep == {b \in DOMAIN B :
                   ~ \E r \in DOMAIN R : b[IdCol(t)] = r[IdCol(t)]}
    IN  [b \in keep |-> B[b]]

\* Mutant: the delete removes nothing.
DeleteNothing(t, B, R) == B

\* DELETE FROM bronze.t USING raw.t WHERE join_condition
DeleteUsing(t, B, R) ==
    LET keep == {b \in DOMAIN B : ~ \E r \in DOMAIN R : JoinCondition(t, b, r)}
    IN  [b \in keep |-> B[b]]

\* SELECT select_exprs FROM raw.t: the bag of the rows selected.
SelectRaw(t, R) ==
    LET S == {Transfer(t, r) : r \in DOMAIN R}
    IN  [x \in S |-> SumCounts(R, {r \in DOMAIN R : Transfer(t, r) = x})]

\* INSERT INTO bronze.t (...) SELECT ... FROM raw.t
InsertSelect(t, B, R) == B (+) SelectRaw(t, R)

\* Mutant: every table with a primary key is merged, whatever its strategy.
IsMergeAnyStrategy(t) == Len(TABLE_CONFIG[t].primary_key) > 0

IsMerge(t) ==
    /\ TABLE_CONFIG[t].write_disposition = "merge"
    /\ Len(TABLE_CONFIG[t].primary_key) > 0

\* The statements of one table's unit of work, in the order they run.
UnitStatements(t, R) ==
    IF BagCardinality(R) = 0 THEN <<"count", "commit">>
    ELSE IF IsMerge(t) THEN <<"count", "columns", "delete", "insert", "commit">>
    ELSE <<"count", "columns", "insert", "commit">>

\* bronze.t inside the transaction once the statements before stmt ran
\* (stmt = "none": once all of them ran).
WithinUnit(t, B, R, stmt) ==
    LET deleted == IF IsMerge(t) THEN DeleteUsing(t, B, R) ELSE B
    IN  IF BagCardinality(R) = 0 \/ stmt \in {"count", "columns", "delete"} THEN B
        ELSE IF stmt = "insert" THEN deleted
        ELSE InsertSelect(t, deleted, R)

\* Mutant: a connection that commits each statement as it runs.
RollbackNothing(before, partial) == partial

\* engine.begin(): an exception inside the block rolls the transaction back.
Rollback(before, partial) == before

\* bronze.t after the unit: committed when nothing raised.
UnitResult(t, B, R, stmt) ==
    IF stmt = "none" THEN WithinUnit(t, B, R, "none")
    ELSE Rollback(B, WithinUnit(t, B, R, stmt))

\* Mutant: no test of raw_count = 0.
OutcomeNoSkip(t, R, stmt) ==
    IF stmt # "none" THEN [status |-> "error", error |-> "exception"]
    ELSE [status |-> "success", rows |-> BagCardinality(R)]

\* Mutant: a unit that raised is recorded with the run log's status word.
OutcomeFailureStatus(t, R, stmt) ==
    IF stmt # "none" THEN [status |-> "failure", error |-> "exception"]
    ELSE IF BagCardinality(R) = 0 THEN [status |-> "skipped", rows |-> 0]
    ELSE [status |-> "success", rows |-> BagCardinality(R)]

\* results[table_name] of the unit.
Outcome(t, R, stmt) ==
    IF stmt # "none" THEN [status |-> "error", error |-> "exception"]
    ELSE IF BagCardinality(R) = 0 THEN [status |-> "skipped", rows |-> 0]
    ELSE [status |-> "success", rows |-> BagCardinality(R)]

\* Mutant: an exception leaves the loop.
NextIdxAbort(i, stmt) == IF stmt = "none" THEN i + 1 ELSE Len(TableOrder) + 1

\* The loop goes on to the next table whatever the unit's outcome.
NextIdx(i, stmt) == i + 1

\* engine = get_engine(); results = {}; kill_stale_sessions(engine)
TransformBegin ==
    /\ pc' = "transform"
    /\ results' = << >>
    /\ idx' = 1
    /\ fault' = "none"
    /\ bronze0' = bronze
    /\ raw0' = raw
    /\ kills' = 1
    /\ UNCHANGED <<raw, bronze, failures, calls, eltvars, auxvars, othervars>>

\* transform_to_bronze called on its own.
TransformStart ==
    /\ pc = "idle"
    /\ calls \in {"none", "once"}
    /\ TransformBegin
    /\ results0' = results

\* Mutant: the unit's outcome is recorded in metadata.etl_run_log.
RunLogRecorded(log, t, outcome) ==
    log \cup {[table_name |-> t,
               status |-> IF outcome.status = "error" THEN "failure" ELSE "success",
               filter_end |-> NULL,
               run_completed_at |-> Cardinality(log) + 1]}

\* metadata.etl_run_log after a table's unit: the unit records its outcome
\* in results and executes no statement on the run log.
RunLogAfterUnit(log, t, outcome) == log

\* Mutant: kill_stale_sessions is called again for each table's unit.
KillsPerUnit(k) == k + 1

\* The loop body holds no call of kill_stale_sessions: the only call is the
\* one before the loop.
KillsAfterUnit(k) == k

\* Mutant: a successful unit empties the table's raw staging.
RawEmptiedOnSuccess(t, R, stmt) == IF stmt = "none" THEN EmptyBag ELSE R

\* Mutant: a failed unit discards the table's raw staging.
RawDiscardedOnError(t, R, stmt) == IF stmt = "none" THEN R ELSE EmptyBag

\* The unit reads raw.t (SELECT COUNT(*), DELETE ... USING, INSERT ...
\* SELECT) and holds no statement that writes it.
RawAfterUnit(t, R, stmt) == R

\* One iteration of "for table_name, config in TABLE_CONFIG.items()".
ReconcileTable ==
    /\ pc = "transform"
    /\ idx <= Len(TableOrder)
    /\ LET t == TableOrder[idx]
           stmts == UnitStatements(t, raw[t])
       IN  \E stmt \in {"none"} \cup
                       (IF failures < MaxFailures
                        THEN {stmts[i] : i \in 1..Len(stmts)} ELSE {}) :
             /\ bronze' = [bronze EXCEPT ![t] = UnitResult(t, @, raw[t], stmt)]
             /\ results' = (t :> Outcome(t, raw[t], stmt)) @@ results
             /\ fault' = stmt
             /\ failures' = IF stmt = "none" THEN failures ELSE failures + 1
             /\ idx' = NextIdx(idx, stmt)
             /\ runlog' = RunLogAfterUnit(runlog, t, Outcome(t, raw[t], stmt))
             /\ raw' = [raw EXCEPT ![t] = RawAfterUnit(t, @, stmt)]
    /\ kills' = KillsAfterUnit(kills)
    /\ UNCHANGED <<pc, calls, bronze0, raw0>>
    /\ UNCHANGED <<drive, file_mapping, dltState, batch, runs, exports, lastV, auxvars, othervars, results0>>

\* The greatest incremental-column value of the rows S of table t.
MaxValue(t, S) ==
    CHOOSE v \in {r[IncCol(t)] : r \in S} : \A r \in S : r[IncCol(t)] <= v

\* The run that ends here reconciled rows it loaded for table t.
RunProcessed(t) ==
    /\ t \in DOMAIN batch
    /\ batch[t] # {}
    /\ t \in DOMAIN results
    /\ results[t].status = "success"

\* return results
TransformReturn ==
    /\ pc = "transform"
    /\ idx > Len(TableOrder)
    /\ pc' = "idle"
    /\ calls' = IF calls = "none" THEN "once" ELSE "twice"
    /\ lastV' = [t \in {u \in Tables : RunProcessed(u)} |-> MaxValue(t, batch[t])]
    /\ batch' = << >>
    /\ UNCHANGED <<raw, bronze, results, idx, fault, failures, bronze0, raw0>>
    /\ UNCHANGED <<drive, file_mapping, runlog, dltState, runs, exports, auxvars, othervars, kills, results0>>

----------------------------------------------------------------------------
(* The functions checked on their own keep their call in a variable; in   *)
(* the specifications of the pipeline these variables hold no call.       *)

NoLookup == [table_name |-> "none", fault |-> "none", raised |-> FALSE, value |-> NULL]
NoParse == [filename |-> << >>, year |-> 0, table_name |-> "pending"]
NoExtraction ==
    [table_name |-> "none", df |-> [columns |-> {}, rows |-> {}],
     last_value |-> NULL, yielded |-> {}]

\* No call of the functions of the other pipelines, and no call of
\* kill_stale_sessions yet.
NoCall == [call |-> "none"]
OtherIdle ==
    /\ cli = NoCall
    /\ colexpr = NoCall
    /\ sqlload = NoCall
    /\ tagging = NoCall
    /\ kills = 0
    /\ results0 = << >>

AuxIdle ==
    /\ lookup = NoLookup
    /\ parse = NoParse
    /\ extraction = NoExtraction
    /\ OtherIdle

----------------------------------------------------------------------------
(* The reconciler alone: transform_to_bronze called twice in succession on *)
(* a database whose raw and bronze tables hold any rows.                   *)

\* The tables whose content is drawn from all bags: an append table and a
\* merge table.
DataTables == {"crm_buyers", "crm_leads"}

\* One table holds any rows; the other tables are empty, but for one row
\* that may be staged for the first table of TABLE_CONFIG.
InitReconcile ==
    /\ \E f \in DataTables, first \in BOOLEAN :
         /\ \E B \in BagsUpTo(BronzeRows(f), MaxBronzeRows),
               R \in BagsUpTo(RawRows(f), MaxRawRows) :
              /\ bronze = [t \in Tables |-> IF t = f THEN B ELSE EmptyBag]
              /\ raw = [t \in Tables |->
                          IF t = f THEN R
                          ELSE IF first /\ t = TableOrder[1]
                          THEN SetToBag({RawRow(t, 1, 2, "X")})
                          ELSE EmptyBag]
    /\ results = << >>
    /\ pc = "idle"
    /\ idx = 1
    /\ fault = "none"
    /\ failures = 0
    /\ calls = "none"
    /\ bronze0 = bronze
    /\ raw0 = raw
    /\ drive = << >>
    /\ file_mapping = << >>
    /\ runlog = {}
    /\ dltState = << >>
    /\ batch = << >>
    /\ runs = 0
    /\ exports = 0
    /\ lastV = << >>
    /\ AuxIdle

NextReconcile == TransformStart \/ ReconcileTable \/ TransformReturn

SpecReconcile == InitReconcile /\ [][NextReconcile]_vars

----------------------------------------------------------------------------
(* elt_sources.py *)

\* pd.Timestamp("1900-01-01")
DEFAULT_INITIAL_VALUE == 1

\* The rows of a table's spreadsheet: versions of record 1, with a date
\* before 1900 (0), 1900-01-01 itself, and later dates.
FileStamps == 0..MaxStamp
FileRows(t) == {RawRow(t, 1, s, "X") : s \in FileStamps}

\* Mutant: the query selects the table's rows whatever their status.
AnyStatusEntries(log, t) ==
    {e \in log : e.table_name = t /\ e.filter_end # NULL}

\* The run-log rows the query of get_last_filter_end selects for a table.
SuccessEntries(log, t) ==
    {e \in log : e.table_name = t /\ e.status = "success" /\ e.filter_end # NULL}

\* get_last_filter_end: the values the function may return.  ORDER BY
\* run_completed_at DESC LIMIT 1 picks any of the latest rows; a lookup
\* that raises gives the default.
get_last_filter_end(log, t, lookupFails) ==
    LET S == SuccessEntries(log, t)
        latest == {e \in S : \A o \in S : o.run_completed_at <= e.run_completed_at}
    IN  IF lookupFails \/ S = {} THEN {DEFAULT_INITIAL_VALUE}
        ELSE {e.filter_end : e \in latest}

\* The calls of get_last_filter_end that can raise, in the order they run:
\* get_engine(), engine.connect(), conn.execute() and pd.Timestamp(row[0]).
LookupSteps == <<"get_engine", "connect", "execute", "Timestamp">>

\* The calls inside "try: ... except Exception": get_engine() is called on
\* the line before the try.
InsideTry(step) == step \in {"connect", "execute", "Timestamp"}

\* Mutant: the cursor always starts from the run log's value.
LastValueFromRunLog(state, t, initial_value) == initial_value

\* last_value.last_value: dlt's stored cursor value of the resource, and
\* initial_value when the resource has no stored state.
LastValue(state, t, initial_value) ==
    IF t \in DOMAIN state THEN state[t] ELSE initial_value

\* Mutant: rows as old as the cutoff are kept.
FilterNotOlder(t, rows, cutoff) == {r \in rows : r[IncCol(t)] >= cutoff}

\* df[df[incremental_col] > cutoff]
FilterNewer(t, rows, cutoff) == {r \in rows : r[IncCol(t)] > cutoff}

\* "if last_value.last_value:": None is false and every pd.Timestamp is
\* true, DEFAULT_INITIAL_VALUE included.
Truthy(v) == v # NULL

\* Mutant: a spreadsheet without the incremental column yields nothing.
table_data_needs_column(t, df, last_value) ==
    IF IncCol(t) \in df.columns
    THEN IF Truthy(last_value) THEN FilterNewer(t, df.rows, last_value)
         ELSE df.rows
    ELSE {}

\* The rows table_data yields from the parsed and cast DataFrame df when
\* the cursor is last_value.  A date that could not be parsed is NaT
\* (NULL), and NaT > cutoff is false.
table_data(t, df, last_value) ==
    IF IncCol(t) \in df.columns
    THEN IF Truthy(last_value) THEN FilterNewer(t, df.rows, last_value)
         ELSE df.rows
    ELSE df.rows

\* Mutant: the load does not store the cursor.
CursorNotStored(t, cutoff, rows) == cutoff

\* dlt advances the cursor to the greatest value the resource yielded.
CursorAfter(t, cutoff, rows) ==
    IF rows = {} THEN cutoff
    ELSE IF MaxValue(t, rows) > cutoff THEN MaxValue(t, rows) ELSE cutoff

\* dlt writes the yielded rows to raw.<t> with the resource's
\* write_disposition: merge replaces the rows of the same primary key.
WriteRaw(t, R, rows) ==
    LET new == SetToBag(rows)
    IN  IF IsMerge(t) THEN DeleteUsing(t, R, new) (+) new ELSE R (+) new

----------------------------------------------------------------------------
(* elt_extract.py, elt_load.py, elt_controller.py *)

\* The CRM adds a row to a spreadsheet of the Drive folder.
CrmExport ==
    /\ pc = "idle"
    /\ exports < MaxExports
    /\ \E t \in DOMAIN drive : \E r \in FileRows(t) \ drive[t] :
         drive' = [drive EXCEPT ![t] = @ \cup {r}]
    /\ exports' = exports + 1
    /\ UNCHANGED <<dbvars, pc, file_mapping, runlog, dltState, batch, runs, lastV, auxvars, othervars, kills, results0>>

\* elt_extract / stage_inputs: the files are downloaded, or a download
\* raises and the exception leaves stage_inputs.
EltExtract ==
    /\ pc = "idle"
    /\ runs < MaxRuns
    /\ runs' = runs + 1
    /\ \/ /\ file_mapping' = drive
          /\ pc' = "extracted"
          /\ UNCHANGED failures
       \/ /\ failures < MaxFailures
          /\ failures' = failures + 1
          /\ pc' = "idle"
          /\ UNCHANGED file_mapping
    /\ UNCHANGED <<raw, bronze, results, idx, fault, calls, bronze0, raw0>>
    /\ UNCHANGED <<drive, runlog, dltState, batch, exports, lastV, auxvars, othervars, kills, results0>>

\* Mutant: the file that cannot be read is left out and the other staged
\* files are loaded.
LoadOthers(R, fm, bad) ==
    [t \in Tables |->
        IF t \in DOMAIN fm \ {bad}
        THEN WriteRaw(t, R[t], FilterNewer(t, fm[t], DEFAULT_INITIAL_VALUE))
        ELSE R[t]]

\* The raw schema after pipeline.run(source) raised while the file of
\* table bad was read: load_to_raw has no try, the exception leaves it and
\* no table of the batch is loaded.
AbortedLoad(R, fm, bad) == R

\* elt_load / load_to_raw: pipeline.run(crm_source(file_mapping)) loads
\* every staged table and stores the cursors, or raises and loads nothing.
EltLoad ==
    /\ pc = "extracted"
    /\ \/ \E init \in [DOMAIN file_mapping -> FileStamps] :
            /\ \A t \in DOMAIN file_mapping :
                 \E lookupFails \in BOOLEAN :
                    init[t] \in get_last_filter_end(runlog, t, lookupFails)
            /\ LET cutoff == [t \in DOMAIN file_mapping |->
                                LastValue(dltState, t, init[t])]
                   rows == [t \in DOMAIN file_mapping |->
                              FilterNewer(t, file_mapping[t], cutoff[t])]
               IN  /\ batch' = rows
                   /\ raw' = [t \in Tables |->
                                IF t \in DOMAIN rows
                                THEN WriteRaw(t, raw[t], rows[t]) ELSE raw[t]]
                   /\ dltState' =
                        [t \in DOMAIN dltState \cup DOMAIN rows |->
                           IF t \in DOMAIN rows
                           THEN CursorAfter(t, cutoff[t], rows[t])
                           ELSE dltState[t]]
                   /\ UNCHANGED runlog
            /\ pc' = "loaded"
            /\ UNCHANGED failures
       \/ /\ failures < MaxFailures
          /\ failures' = failures + 1
          /\ pc' = "idle"
          /\ \E bad \in DOMAIN file_mapping :
               raw' = AbortedLoad(raw, file_mapping, bad)
          /\ UNCHANGED <<batch, dltState, runlog>>
    /\ UNCHANGED <<bronze, results, idx, fault, calls, bronze0, raw0>>
    /\ UNCHANGED <<drive, file_mapping, runs, exports, lastV, auxvars, othervars, kills, results0>>

\* elt_transform: transform_to_bronze after the load.
EltTransform ==
    /\ pc = "loaded"
    /\ TransformBegin
    /\ UNCHANGED results0

\* The pipeline starts on empty raw and bronze tables, with the run-log
\* rows an earlier pipeline left for one table, whose spreadsheet is in
\* the Drive folder.
RunLogRows(t) ==
    [table_name : {t}, status : {"success", "failure"},
     filter_end : {2}, run_completed_at : {1}]

Init ==
    /\ \E f \in DataTables :
         /\ \E F \in SUBSET FileRows(f) : drive = (f :> F)
         /\ runlog \in SUBSET RunLogRows(f)
    /\ raw = [t \in Tables |-> EmptyBag]
    /\ bronze = [t \in Tables |-> EmptyBag]
    /\ results = << >>
    /\ pc = "idle"
    /\ idx = 1
    /\ fault = "none"
    /\ failures = 0
    /\ calls = "none"
    /\ bronze0 = bronze
    /\ raw0 = raw
    /\ file_mapping = << >>
    /\ dltState = << >>
    /\ batch = << >>
    /\ runs = 0
    /\ exports = 0
    /\ lastV = << >>
    /\ AuxIdle

Next ==
    \/ CrmExport
    \/ EltExtract
    \/ EltLoad
    \/ EltTransform
    \/ ReconcileTable
    \/ TransformReturn

Spec == Init /\ [][Next]_vars

----------------------------------------------------------------------------
(* Extraction and load of a batch of two files *)

\* The Drive folder holds the spreadsheets of two tables; raw and bronze
\* are empty and so is the run log.
InitBatch ==
    /\ \E S \in [DataTables -> SUBSET FileStamps] :
         drive = [t \in DataTables |-> {RawRow(t, 1, v, "X") : v \in S[t]}]
    /\ runlog = {}
    /\ raw = [t \in Tables |-> EmptyBag]
    /\ bronze = [t \in Tables |-> EmptyBag]
    /\ results = << >>
    /\ pc = "idle"
    /\ idx = 1
    /\ fault = "none"
    /\ failures = 0
    /\ calls = "none"
    /\ bronze0 = bronze
    /\ raw0 = raw
    /\ file_mapping = << >>
    /\ dltState = << >>
    /\ batch = << >>
    /\ runs = 0
    /\ exports = 0
    /\ lastV = << >>
    /\ AuxIdle

NextBatch == EltExtract \/ EltLoad

SpecBatch == InitBatch /\ [][NextBatch]_vars

----------------------------------------------------------------------------
(* get_last_filter_end called on its own, on any run log *)

\* The database and the pipeline when only a function is called.
PipelineIdle ==
    /\ raw = [t \in Tables |-> EmptyBag]
    /\ bronze = [t \in Tables |-> EmptyBag]
    /\ results = << >>
    /\ idx = 1
    /\ fault = "none"
    /\ failures = 0
    /\ calls = "none"
    /\ bronze0 = bronze
    /\ raw0 = raw
    /\ drive = << >>
    /\ file_mapping = << >>
    /\ dltState = << >>
    /\ batch = << >>
    /\ runs = 0
    /\ exports = 0
    /\ lastV = << >>

\* The rows metadata.etl_run_log may hold: of two tables, of either
\* status, with or without a filter_end, completed at one of two times.
LogRows ==
    [table_name : DataTables, status : {"success", "failure"},
     filter_end : {NULL, 2, 3}, run_completed_at : {1, 2}]

\* The run logs of at most MaxLogRows rows.
RunLogs ==
    {{}} \cup {{q[i] : i \in 1..MaxLogRows} : q \in [1..MaxLogRows -> LogRows]}

InitLookup ==
    /\ runlog \in RunLogs
    /\ pc = "lookup"
    /\ PipelineIdle
    /\ AuxIdle

\* get_last_filter_end(table_name): an exception of get_engine() leaves
\* the function; one raised inside the try is caught and the default is
\* returned.  pd.Timestamp(row[0]) is only called when a row was fetched.
GetLastFilterEnd ==
    /\ pc = "lookup"
    /\ \E t \in DataTables,
          f \in {"none"} \cup {LookupSteps[i] : i \in 1..Len(LookupSteps)} :
         /\ f = "Timestamp" => SuccessEntries(runlog, t) # {}
         /\ IF f # "none" /\ ~InsideTry(f)
            THEN lookup' = [table_name |-> t, fault |-> f,
                            raised |-> TRUE, value |-> NULL]
            ELSE \E v \in get_last_filter_end(runlog, t, f # "none") :
                    lookup' = [table_name |-> t, fault |-> f,
                               raised |-> FALSE, value |-> v]
    /\ pc' = "done"
    /\ UNCHANGED <<dbvars, eltvars, parse, extraction, othervars, kills, results0>>

NextLookup == GetLastFilterEnd

SpecLookup == InitLookup /\ [][NextLookup]_vars

----------------------------------------------------------------------------
(* parse_drive_filename called on its own, on the names of Drive files *)

\* The first calendar year of the model: the old year of the docstring's
\* "buyers_2025.xlsx".
FirstYear == 2025
Years == FirstYear..(FirstYear + MaxYears - 1)

\* What stands before the year in a name: the table names without "crm_",
\* the same after "all_" (the properties export and the old naming
\* convention), a table name with its prefix, an unknown name and nothing.
TableBases == {SubSeq(Chars[t], Len(CRM_) + 1, Len(Chars[t])) : t \in Tables}
Stems ==
    TableBases
    \cup {<<"a", "l", "l", "_">> \o b : b \in TableBases}
    \cup {Chars["crm_buyers"], <<"n", "o", "t", "e", "s">>, << >>}

\* What follows it: nothing, "_" and a year, a year without "_", "_" and
\* three or five digits.
Tails ==
    {<< >>}
    \cup {<<"_">> \o Str(y) : y \in Years}
    \cup {Str(y) : y \in Years}
    \cup {<<"_">> \o Tail(Str(y)) : y \in Years}
    \cup {<<"_">> \o Str(y) \o <<"0">> : y \in Years}

\* The extension, with or without a newline before it.
Extensions ==
    {XLSX, <<"\n">> \o XLSX, <<".", "x", "l", "s">>, <<".", "X", "L", "S", "X">>, <<".", "c", "s", "v">>, << >>}

Filenames == {stem \o tail \o ext : stem \in Stems, tail \in Tails, ext \in Extensions}

InitParse ==
    /\ \E f \in Filenames, y \in Years :
         parse = [filename |-> f, year |-> y, table_name |-> "pending"]
    /\ lookup = NoLookup
    /\ extraction = NoExtraction
    /\ OtherIdle
    /\ runlog = {}
    /\ pc = "parse"
    /\ PipelineIdle

\* table_name = parse_drive_filename(file["name"])
ParseDriveFilename ==
    /\ pc = "parse"
    /\ parse' = [parse EXCEPT
                   !.table_name = parse_drive_filename(parse.filename, parse.year)]
    /\ pc' = "parsed"
    /\ UNCHANGED <<dbvars, eltvars, lookup, extraction, othervars, kills, results0>>

NextParse == ParseDriveFilename

SpecParse == InitParse /\ [][NextParse]_vars

----------------------------------------------------------------------------
(* table_data called on its own, on any parsed spreadsheet *)

\* The values of the incremental column after the cast: the dates of
\* FileStamps and NaT.
CastStamps == FileStamps \cup {NULL}

\* The DataFrames of a table's spreadsheet: versions of record 1 with the
\* incremental column, or records without that column.
DataFrames(t) ==
    {[columns |-> RawCols(t), rows |-> {RawRow(t, 1, v, "X") : v \in S}]
        : S \in SUBSET CastStamps}
    \cup
    {[columns |-> RawCols(t) \ {IncCol(t)},
      rows |-> {[c \in RawCols(t) \ {IncCol(t)} |-> RawRow(t, i, 0, "X")[c]] : i \in I}]
        : I \in SUBSET {1, 2}}

\* The cursor is the default, or a later value seeded from the run log or
\* stored by dlt.
InitExtraction ==
    /\ \E t \in DataTables :
         \E df \in DataFrames(t), v \in DEFAULT_INITIAL_VALUE..MaxStamp :
            extraction = [table_name |-> t, df |-> df, last_value |-> v,
                          yielded |-> {}]
    /\ lookup = NoLookup
    /\ parse = NoParse
    /\ OtherIdle
    /\ runlog = {}
    /\ pc = "extract"
    /\ PipelineIdle

\* The generator table_data runs to its end.
TableData ==
    /\ pc = "extract"
    /\ extraction' =
         [extraction EXCEPT
            !.yielded = table_data(extraction.table_name, extraction.df,
                                   extraction.last_value)]
    /\ pc' = "yielded"
    /\ UNCHANGED <<dbvars, eltvars, lookup, parse, othervars, kills, results0>>

NextExtraction == TableData

SpecExtraction == InitExtraction /\ [][NextExtraction]_vars

----------------------------------------------------------------------------
(* database_update.main: the unified pipeline CLI *)

\* The logical table names stage_inputs maps to local files (three of the
\* seven), and a name that is not one of them.
TableOptions == {"rawleads", "rawbuyers", "rawsellers"}
UnknownTable == "nosuch"

\* parse_args: --all and --tables exclude each other; the four switches
\* are independent.
CliArgs ==
    {a \in [all : BOOLEAN,
            tables : {{}, {"rawleads"}, {"rawleads", UnknownTable}},
            only_parquet : BOOLEAN, no_postgres : BOOLEAN,
            no_bq : BOOLEAN, dry_run : BOOLEAN] :
        ~(a.all /\ a.tables # {})}

\* A write to one of the external stores.
Write(store, name) == [store |-> store, name |-> name]

\* stage_inputs uploads the combined buyers file to the output folder of
\* the file store, over the existing file when there is one.
StageWrites(existing) ==
    {Write("drive", IF existing THEN "all_buyers.xlsx (overwritten)"
                    ELSE "all_buyers.xlsx (created)")}

\* save_selected_to_parquet skips a name whose spreadsheet is missing;
\* the buyers spreadsheet was just produced by stage_inputs.
Saved(selection, staged) == selection \cap (staged \cup {"rawbuyers"})

\* run_pipeline: an empty selection means every table; a dry run returns
\* before the three writers; the uploads skip a name with no Parquet file.
run_pipeline(selection, do_parquet, do_postgres, do_bq, dry_run, staged, parquet) ==
    LET sel == IF selection = {} THEN TableOptions ELSE selection
        pq  == IF do_parquet THEN Saved(sel, staged) ELSE {}
        has == sel \cap (parquet \cup pq)
    IN  IF dry_run THEN {}
        ELSE {Write("parquet", n) : n \in pq}
             \cup (IF do_postgres THEN {Write("postgres", n) : n \in has} ELSE {})
             \cup (IF do_bq THEN {Write("bigquery", n) : n \in has} ELSE {})

\* A run of main: its arguments, whether the output folder already holds
\* all_buyers.xlsx, the all_* files found there, the Parquet files left by
\* an earlier run, and the answer given at the prompt.
InitCli ==
    /\ \E a \in CliArgs, e \in BOOLEAN,
          st \in SUBSET {"rawleads"}, pq \in SUBSET {"rawleads"},
          ans \in {{}, {"rawbuyers"}} :
         cli = [call |-> "main", args |-> a, existing |-> e, staged |-> st,
                parquet |-> pq, answer |-> ans, selection |-> {},
                writes |-> {}, exit |-> 0]
    /\ pc = "main"
    /\ PipelineIdle
    /\ runlog = {}
    /\ lookup = NoLookup /\ parse = NoParse /\ extraction = NoExtraction
    /\ colexpr = NoCall /\ sqlload = NoCall /\ tagging = NoCall /\ kills = 0 /\ results0 = << >>

\* main, line 299: stage_inputs() is called first, whatever the arguments.
StageInputs ==
    /\ pc = "main"
    /\ cli' = [cli EXCEPT !.writes = @ \cup StageWrites(cli.existing)]
    /\ pc' = "staged"
    /\ UNCHANGED <<dbvars, eltvars, auxvars, colexpr, sqlload, tagging, kills, results0>>

\* main, lines 302-315: the selection; an unknown name ends the run with
\* status 2.
SelectTables ==
    /\ pc = "staged"
    /\ LET a == cli.args
           bad == a.tables \ TableOptions
       IN  IF a.all
           THEN cli' = [cli EXCEPT !.selection = TableOptions] /\ pc' = "selected"
           ELSE IF a.tables # {}
           THEN IF bad # {}
                THEN cli' = [cli EXCEPT !.exit = 2] /\ pc' = "exit"
                ELSE cli' = [cli EXCEPT !.selection = a.tables] /\ pc' = "selected"
           ELSE cli' = [cli EXCEPT !.selection = cli.answer] /\ pc' = "selected"
    /\ UNCHANGED <<dbvars, eltvars, auxvars, colexpr, sqlload, tagging, kills, results0>>

\* main, lines 317-329: the flags and the call of run_pipeline.
RunPipeline ==
    /\ pc = "selected"
    /\ LET a == cli.args
           do_parquet == TRUE
           do_postgres == ~(a.only_parquet \/ a.no_postgres)
           do_bq == ~(a.only_parquet \/ a.no_bq)
       IN  cli' = [cli EXCEPT !.writes = @ \cup
                     run_pipeline(cli.selection, do_parquet, do_postgres,
                                  do_bq, a.dry_run, cli.staged, cli.parquet)]
    /\ pc' = "exit"
    /\ UNCHANGED <<dbvars, eltvars, auxvars, colexpr, sqlload, tagging, kills, results0>>

NextCli == StageInputs \/ SelectTables \/ RunPipeline

SpecCli == InitCli /\ [][NextCli]_vars

----------------------------------------------------------------------------
(* elt_transform._get_column_expressions called on its own *)

MaxCols == 3

\* The column names of the two schemas, as sequences of characters: two
\* data columns, a spreadsheet artifact and a bookkeeping column of dlt.
ColChars ==
    ("name" :> <<"n", "a", "m", "e">>) @@
    ("created_at" :> <<"c", "r", "e", "a", "t", "e", "d", "_", "a", "t">>) @@
    ("unnamed_0" :> <<"u", "n", "n", "a", "m", "e", "d", "_", "0">>) @@
    ("_dlt_id" :> <<"_", "d", "l", "t", "_", "i", "d">>)
Columns == DOMAIN ColChars

\* information_schema.columns.data_type
DataTypes == {"character varying", "timestamp without time zone"}

DLT_ == <<"_", "d", "l", "t", "_">>
UNNAMED == <<"u", "n", "n", "a", "m", "e", "d">>

\* str.startswith
StartsWith(s, p) == Len(s) >= Len(p) /\ SubSeq(s, 1, Len(p)) = p

\* Mutant: every column that is not a dlt column is a data column.
IsNotDltCol(c) == ~StartsWith(ColChars[c], DLT_)

\* The test of the comprehension that builds data_cols.
IsDataCol(c) ==
    ~StartsWith(ColChars[c], DLT_) /\ ~StartsWith(ColChars[c], UNNAMED)

\* The test of the comprehension that builds dlt_cols.
IsDltCol(c) == StartsWith(ColChars[c], DLT_)

\* Mutant: every column is cast to its bronze type.
AlwaysCast(col, raw_type, bronze_type) == [col |-> col, cast |-> bronze_type]

\* One element of select_parts: CAST("col" AS bronze_type) AS "col" when
\* the types differ, "col" otherwise.
SelectPart(col, raw_type, bronze_type) ==
    IF raw_type # bronze_type
    THEN [col |-> col, cast |-> bronze_type]
    ELSE [col |-> col, cast |-> "none"]

\* The rows of information_schema.columns for a table, in ordinal
\* position: distinct columns, each with a type.
Schemas ==
    {s \in UNION {[1..n -> [column_name : Columns, data_type : DataTypes]]
                     : n \in 0..MaxCols} :
        \A i, j \in DOMAIN s : s[i].column_name = s[j].column_name => i = j}

\* {row[0]: row[1] for row in result}
TypesOf(schema) ==
    [c \in {schema[i].column_name : i \in DOMAIN schema} |->
        (CHOOSE r \in {schema[i] : i \in DOMAIN schema} : r.column_name = c).data_type]

\* bronze_types.get(col, raw_type)
DictGet(dict, key, default) == IF key \in DOMAIN dict THEN dict[key] ELSE default

\* _get_column_expressions, from the rows of the two queries.
get_column_expressions(raw_schema, bronze_schema) ==
    LET raw_types == TypesOf(raw_schema)
        bronze_types == TypesOf(bronze_schema)
        all_cols == [i \in DOMAIN raw_schema |-> raw_schema[i].column_name]
        InBronze(c) == c \in DOMAIN bronze_types
        data_cols == SelectSeq(all_cols, IsDataCol)
        dlt_cols == SelectSeq(all_cols, IsDltCol)
        ordered_cols == SelectSeq(data_cols \o dlt_cols, InBronze)
    IN  [insert_cols |-> ordered_cols,
         select_exprs |->
            [i \in DOMAIN ordered_cols |->
                SelectPart(ordered_cols[i], raw_types[ordered_cols[i]],
                           DictGet(bronze_types, ordered_cols[i],
                                   raw_types[ordered_cols[i]]))]]

\* The schemas of raw.t and bronze.t; bronze.t is created outside the
\* pipeline and holds any of the columns.
InitColumns ==
    /\ \E r \in Schemas, b \in Schemas :
         colexpr = [call |-> "_get_column_expressions", raw |-> r, bronze |-> b,
                    insert_cols |-> << >>, select_exprs |-> << >>]
    /\ pc = "columns"
    /\ PipelineIdle
    /\ runlog = {}
    /\ lookup = NoLookup /\ parse = NoParse /\ extraction = NoExtraction
    /\ cli = NoCall /\ sqlload = NoCall /\ tagging = NoCall /\ kills = 0 /\ results0 = << >>

GetColumnExpressions ==
    /\ pc = "columns"
    /\ LET res == get_column_expressions(colexpr.raw, colexpr.bronze)
       IN  colexpr' = [colexpr EXCEPT !.insert_cols = res.insert_cols,
                                      !.select_exprs = res.select_exprs]
    /\ pc' = "expressions"
    /\ UNCHANGED <<dbvars, eltvars, auxvars, cli, sqlload, tagging, kills, results0>>

NextColumns == GetColumnExpressions

SpecColumns == InitColumns /\ [][NextColumns]_vars

----------------------------------------------------------------------------
(* de_load.save_selected_to_sql: the legacy full-refresh load *)

\* The tables of a selection, in its order.
SqlSelection == <<"rawleads", "rawbuyers">>

\* The statements of the truncate-and-append attempt (the try block) and
\* of the drop-and-recreate attempt (the body of the first except clause)
\* that can raise.
FirstAttempt == <<"kill_stale_sessions", "TRUNCATE", "to_sql append">>
SecondAttempt == <<"engine.begin", "DROP TABLE", "to_sql replace">>
Faults(stmts) == {"none"} \cup {stmts[i] : i \in 1..Len(stmts)}

\* "except Exception as e" catches every exception of the try block, so
\* the second "except Exception as e2" of the same try statement is never
\* entered; an exception raised in the body of the first except clause
\* leaves the function.
Propagates(first, second) == first # "none" /\ second # "none"

\* bronze.<name> after the iteration: engine.begin() rolls back an attempt
\* that raised.
BronzeAfterLoad(old, first, second) ==
    IF first = "none" THEN "refreshed"
    ELSE IF second = "none" THEN "recreated"
    ELSE old

\* What the iteration prints last.
Printed(first, second) ==
    IF first = "none" THEN "rows refreshed"
    ELSE IF second = "none" THEN "table recreated"
    ELSE IF Propagates(first, second) THEN "recreating it..."
    ELSE "Error loading"

InitSqlLoad ==
    /\ \E E \in SUBSET {SqlSelection[i] : i \in 1..Len(SqlSelection)} :
         sqlload = [call |-> "save_selected_to_sql",
                    exists |-> E,
                    name |-> 1,
                    first |-> [i \in 1..Len(SqlSelection) |-> "pending"],
                    second |-> [i \in 1..Len(SqlSelection) |-> "pending"],
                    bronze |-> [i \in 1..Len(SqlSelection) |-> "old"],
                    printed |-> [i \in 1..Len(SqlSelection) |-> "nothing"],
                    raised |-> "none"]
    /\ pc = "sql"
    /\ PipelineIdle
    /\ runlog = {}
    /\ lookup = NoLookup /\ parse = NoParse /\ extraction = NoExtraction
    /\ cli = NoCall /\ colexpr = NoCall /\ tagging = NoCall /\ kills = 0 /\ results0 = << >>

\* One iteration of "for name in selection" for a table whose spreadsheet
\* is missing.
SkipMissingFile ==
    /\ pc = "sql"
    /\ sqlload.name <= Len(SqlSelection)
    /\ SqlSelection[sqlload.name] \notin sqlload.exists
    /\ sqlload' = [sqlload EXCEPT !.name = @ + 1,
                                  !.printed[sqlload.name] = "Skipping"]
    /\ UNCHANGED <<dbvars, pc, eltvars, auxvars, cli, colexpr, tagging, kills, results0>>

\* One iteration for a table whose spreadsheet exists: pd.read_excel, the
\* first attempt and, when it raised, the second.
LoadTable ==
    /\ pc = "sql"
    /\ sqlload.name <= Len(SqlSelection)
    /\ SqlSelection[sqlload.name] \in sqlload.exists
    /\ LET i == sqlload.name IN
       \/ /\ sqlload' = [sqlload EXCEPT !.raised = "read_excel"]
          /\ pc' = "raised"
       \/ \E first \in Faults(FirstAttempt) :
          \E second \in IF first = "none" THEN {"none"} ELSE Faults(SecondAttempt) :
            /\ sqlload' =
                 [sqlload EXCEPT
                    !.first[i] = first,
                    !.second[i] = IF first = "none" THEN "not tried" ELSE second,
                    !.bronze[i] = BronzeAfterLoad(@, first, second),
                    !.printed[i] = Printed(first, second),
                    !.raised = IF Propagates(first, second) THEN second ELSE "none",
                    !.name = IF Propagates(first, second) THEN @ ELSE @ + 1]
            /\ pc' = IF Propagates(first, second) THEN "raised" ELSE pc
    /\ UNCHANGED <<dbvars, eltvars, auxvars, cli, colexpr, tagging, kills, results0>>

\* The loop has ended: the function returns None.
SqlLoadReturn ==
    /\ pc = "sql"
    /\ sqlload.name > Len(SqlSelection)
    /\ pc' = "returned"
    /\ UNCHANGED <<dbvars, eltvars, auxvars, othervars, kills, results0>>

NextSqlLoad == SkipMissingFile \/ LoadTable \/ SqlLoadReturn

SpecSqlLoad == InitSqlLoad /\ [][NextSqlLoad]_vars

----------------------------------------------------------------------------
(* mp_load.fetch_and_tag_unsubscribed *)

MaxMembers == 3

\* The status codes of the answers to the tagging request: tagged, rate
\* limited, another failure.
TagStatuses == {204, 429, 500}

\* "if response.status_code == 204": the contact is tagged.  Any other
\* status prints the failure, a 429 also sleeps 60 seconds, and the loop
\* goes on to the next contact: the request is not sent again.
TaggedAfter(tagged, member, status) ==
    IF status = 204 THEN tagged \cup {member} ELSE tagged

\* The rows of the DataFrame built from unsubscribed_members.
DataFrameOf(members) == members

InitTagging ==
    /\ tagging = [call |-> "fetch_and_tag_unsubscribed", fetch |-> "pending",
                  members |-> {}, member |-> 1, tagged |-> {},
                  limited |-> {}, result |-> "pending", returned |-> {}]
    /\ pc = "fetch"
    /\ PipelineIdle
    /\ runlog = {}
    /\ lookup = NoLookup /\ parse = NoParse /\ extraction = NoExtraction
    /\ cli = NoCall /\ colexpr = NoCall /\ sqlload = NoCall /\ kills = 0 /\ results0 = << >>

\* The paginated fetch: every page answered 200, or a page answered
\* another status and the loop broke with the members of the pages before
\* it, or a request raised.  No member at all returns None.
FetchUnsubscribed ==
    /\ pc = "fetch"
    /\ \E n \in 0..MaxMembers, outcome \in {"200", "not 200", "raised"} :
         IF outcome = "raised" \/ n = 0
         THEN /\ tagging' = [tagging EXCEPT !.fetch = outcome, !.result = "None"]
              /\ pc' = "returned"
         ELSE /\ tagging' = [tagging EXCEPT !.fetch = outcome, !.members = 1..n]
              /\ pc' = "tag"
    /\ UNCHANGED <<dbvars, eltvars, auxvars, cli, colexpr, sqlload, kills, results0>>

\* One iteration of "for member in batch": the POST of the INACTIVE tag
\* and its answer, or an exception of the request, caught by the except
\* clause of the function.
TagMember ==
    /\ pc = "tag"
    /\ tagging.member \in tagging.members
    /\ \/ \E status \in TagStatuses :
            /\ tagging' =
                 [tagging EXCEPT
                    !.tagged = TaggedAfter(@, tagging.member, status),
                    !.limited = IF status = 429 THEN @ \cup {tagging.member} ELSE @,
                    !.member = @ + 1]
            /\ pc' = pc
       \/ /\ tagging' = [tagging EXCEPT !.result = "None"]
          /\ pc' = "returned"
    /\ UNCHANGED <<dbvars, eltvars, auxvars, cli, colexpr, sqlload, kills, results0>>

\* After the last contact: the DataFrame of all unsubscribed_members.
TaggingReturn ==
    /\ pc = "tag"
    /\ tagging.member \notin tagging.members
    /\ tagging' = [tagging EXCEPT !.result = "DataFrame",
                                  !.returned = DataFrameOf(tagging.members)]
    /\ pc' = "returned"
    /\ UNCHANGED <<dbvars, eltvars, auxvars, cli, colexpr, sqlload, kills, results0>>

NextTagging == FetchUnsubscribed \/ TagMember \/ TaggingReturn

SpecTagging == InitTagging /\ [][NextTagging]_vars

----------------------------------------------------------------------------
(* Properties of the reconciler *)

Key(t, row) == [c \in PkCols(t) |-> row[c]]
KeysOf(t, B) == {Key(t, b) : b \in DOMAIN B}
UniqueKeys(t, B) ==
    \A b \in DOMAIN B :
        B[b] = 1 /\ \A c \in DOMAIN B : Key(t, c) = Key(t, b) => c = b
RowsWithKey(t, B, k) == {b \in DOMAIN B : Key(t, b) = k}

\* A call of transform_to_bronze has returned.
Returned == pc = "idle" /\ calls # "none"
\* The table whose unit of work has just ended.
LastTable == TableOrder[idx - 1]
Reconciled(t, status) == t \in DOMAIN results /\ results[t].status = status
\* The table is configured with the append strategy.
AppendTable(t) == TABLE_CONFIG[t].write_disposition = "append"

\* C1 (as claimed): when the second of two calls in succession has
\* returned, with raw untouched in between, every bronze table has the row
\* count it had before that call and every table's outcome is skipped.
C1_Idempotent ==
    (Returned /\ calls = "twice") =>
        \A t \in Tables :
            /\ BagCardinality(bronze[t]) = BagCardinality(bronze0[t])
            /\ results[t].status = "skipped"

\* C2: a merge table whose bronze rows have distinct primary keys, among
\* them the key B of the one row of the raw batch: after the table's
\* successful unit bronze has the same keys, one row per key, the row of
\* key B has the batch's field values and every other row is unchanged.
C2_MergeCorrect ==
    \A t \in Tables :
        (/\ Reconciled(t, "success")
         /\ IsMerge(t)
         /\ UniqueKeys(t, bronze0[t])
         /\ BagCardinality(raw0[t]) = 1
         /\ KeysOf(t, raw0[t]) \subseteq KeysOf(t, bronze0[t]))
        => LET r == CHOOSE x \in DOMAIN raw0[t] : TRUE
           IN  /\ UniqueKeys(t, bronze[t])
               /\ KeysOf(t, bronze[t]) = KeysOf(t, bronze0[t])
               /\ \A b \in DOMAIN bronze[t] :
                    IF Key(t, b) = Key(t, r)
                    THEN b["name"] = r["name"]
                    ELSE b \in DOMAIN bronze0[t]

\* C2 witness: bronze held three keys {A, B, C}, raw held key B with a new
\* name, and the merge succeeded.
C2_Witness ==
    \E t \in Tables :
        /\ Reconciled(t, "success")
        /\ IsMerge(t)
        /\ UniqueKeys(t, bronze0[t])
        /\ Cardinality(KeysOf(t, bronze0[t])) = 3
        /\ BagCardinality(raw0[t]) = 1
        /\ KeysOf(t, raw0[t]) \subseteq KeysOf(t, bronze0[t])
        /\ \E b \in DOMAIN bronze0[t], r \in DOMAIN raw0[t] :
             Key(t, b) = Key(t, r) /\ b["name"] # r["name"]

\* The crm_leads scenario: bronze {eventid 1, lastupdate 1, Old}, raw
\* {eventid 1, lastupdate 2, X}, reconciled with success.
LeadsScenario ==
    /\ Reconciled("crm_leads", "success")
    /\ bronze0["crm_leads"] = SetToBag({BronzeRow("crm_leads", 1, 1, "Old")})
    /\ raw0["crm_leads"] = SetToBag({RawRow("crm_leads", 1, 2, "X")})

\* C3 (as claimed): after the scenario bronze.crm_leads has exactly one row
\* with eventid = 1, and it has lastupdate = 2 and name = X.
C3_OneRowPerEvent ==
    LeadsScenario =>
        LET B == bronze["crm_leads"]
            rows == {b \in DOMAIN B : b["eventid"] = 1}
        IN  /\ SumCounts(B, rows) = 1
            /\ \A b \in rows : b["lastupdate"] = 2 /\ b["name"] = "X"

\* C3 (amended): after the scenario bronze.crm_leads has exactly two rows
\* with eventid = 1: the old row, unchanged, and the raw row; the two
\* primary-key tuples differ in lastupdate, so the merge deletes nothing.
C3_BothVersionsKept ==
    LeadsScenario =>
        bronze["crm_leads"] =
            SetToBag({BronzeRow("crm_leads", 1, 1, "Old"),
                      BronzeRow("crm_leads", 1, 2, "X")})

C3_Witness == LeadsScenario

\* C4: after the successful unit of an append table, bronze has its N rows
\* and the M > 0 raw rows: N + M rows, every bronze row still there, every
\* raw row added as often as raw holds it.
C4_AppendCorrect ==
    \A t \in Tables :
        (Reconciled(t, "success") /\ AppendTable(t))
        => /\ BagCardinality(raw0[t]) > 0
           /\ BagCardinality(bronze[t]) =
                BagCardinality(bronze0[t]) + BagCardinality(raw0[t])
           /\ bronze0[t] \sqsubseteq bronze[t]
           /\ \A r \in DOMAIN raw0[t] :
                CopiesIn(Transfer(t, r), bronze[t]) =
                    CopiesIn(Transfer(t, r), bronze0[t]) + raw0[t][r]

\* C4 witness: an append table whose raw holds the same row twice and a
\* row of a key bronze holds already, reconciled with success.
C4_Witness ==
    \E t \in Tables :
        /\ Reconciled(t, "success")
        /\ AppendTable(t)
        /\ BagCardinality(bronze0[t]) > 0
        /\ \E r \in DOMAIN raw0[t] :
             raw0[t][r] = 2 /\ Key(t, r) \in KeysOf(t, bronze0[t])

\* C5: a table whose raw holds zero rows when its unit runs keeps its
\* bronze rows, and its outcome, when the unit raised nothing, is
\* {status: skipped, rows: 0}, whatever its write strategy.
C5_ZeroRowSkip ==
    \A t \in DOMAIN results :
        BagCardinality(raw0[t]) = 0 =>
            /\ bronze[t] = bronze0[t]
            /\ results[t].status # "error" =>
                 results[t] = [status |-> "skipped", rows |-> 0]

\* C5 witness: a merge table with rows in bronze and none in raw, skipped.
C5_Witness ==
    \E t \in DOMAIN results :
        /\ IsMerge(t)
        /\ BagCardinality(raw0[t]) = 0
        /\ BagCardinality(bronze0[t]) > 0
        /\ results[t] = [status |-> "skipped", rows |-> 0]

\* C7: an exception in one table's unit does not end the loop: the tables
\* before the loop's position all have an outcome, the failed table's is
\* error, and the call returns a map with an outcome for every table.
C7_FailureIsolated ==
    /\ pc = "transform" =>
         /\ DOMAIN results = {TableOrder[i] : i \in 1..(idx - 1)}
         /\ fault # "none" => results[LastTable].status = "error"
    /\ Returned => DOMAIN results = Tables

\* C7 witness: the call returned, one table's outcome is error and a table
\* later in the loop was reconciled with success.
C7_Witness ==
    /\ Returned
    /\ \E i, j \in 1..Len(TableOrder) :
         /\ i < j
         /\ results[TableOrder[i]].status = "error"
         /\ results[TableOrder[j]].status = "success"

\* C8: a table whose unit raised has the bronze rows it had before the
\* unit, and a table whose unit committed earlier in the same call keeps
\* what the unit wrote.
C8_AllOrNothing ==
    \A t \in DOMAIN results :
        /\ results[t].status = "error" => bronze[t] = bronze0[t]
        /\ results[t].status = "success" =>
             \A r \in DOMAIN raw0[t] :
                 CopiesIn(Transfer(t, r), bronze[t]) >= raw0[t][r]

\* C8 witness: the INSERT of a merge raised after its DELETE had removed
\* rows, and an earlier table of the same call was reconciled with success.
C8_Witness ==
    /\ pc = "transform"
    /\ idx > 1
    /\ fault = "insert"
    /\ IsMerge(LastTable)
    /\ DeleteUsing(LastTable, bronze0[LastTable], raw0[LastTable])
         # bronze0[LastTable]
    /\ \E i \in 1..(idx - 2) : results[TableOrder[i]].status = "success"

\* C20: whenever transform_to_bronze returns, the map it returns has one
\* outcome for every table of TABLE_CONFIG and for no other table, and the
\* status of each outcome is skipped, success or error.
C20_ResultMap ==
    Returned =>
        /\ DOMAIN results = DOMAIN TABLE_CONFIG
        /\ \A t \in DOMAIN results :
             results[t].status \in {"skipped", "success", "error"}

\* A call returned a map in which the three statuses occur.
C20_Witness ==
    /\ Returned
    /\ \A st \in {"skipped", "success", "error"} :
         \E t \in DOMAIN results : results[t].status = st

\* C22 as stated: stale sessions are terminated before each table's unit
\* starts, so when the unit of the idx-th table is about to start, a
\* termination step has occurred for it and for each unit before it.
C22_KillBeforeEachUnit ==
    (pc = "transform" /\ idx <= Len(TableOrder)) => kills >= idx

\* C22 as the code has it: stale sessions are terminated exactly once in a
\* call of transform_to_bronze, before the first table's unit; no
\* termination step occurs between two units.
C22_KillOncePerCall ==
    pc = "transform" => kills = 1

\* A unit has ended, the next one is about to start, and the only
\* termination step is the one before the loop.
C22_Witness ==
    /\ pc = "transform"
    /\ idx > 1 /\ idx <= Len(TableOrder)
    /\ kills = 1

\* C26: transform_to_bronze never modifies raw: during the call and after
\* it has returned, every raw table holds exactly the rows it held before
\* the call, whatever each table's outcome.
C26_RawUnmodified ==
    (pc = "transform" \/ Returned) => raw = raw0

\* C26 witness: the call returned with a table skipped, a table reconciled
\* with success and a table in error; the raw rows of the successful
\* table are still staged.
C26_Witness ==
    /\ Returned
    /\ \E t, u, v \in Tables :
         /\ results[t].status = "success"
         /\ BagCardinality(raw[t]) > 0 /\ raw[t] = raw0[t]
         /\ results[u].status = "error"
         /\ results[v].status = "skipped"

\* C27: for a merge table, when no two bronze rows and no two raw rows
\* have the same primary-key tuple before the unit (no key value is null),
\* no two bronze rows have the same primary-key tuple after the table's
\* successful unit.
C27_MergeKeepsKeysUnique ==
    \A t \in Tables :
        (/\ Reconciled(t, "success")
         /\ TABLE_CONFIG[t].write_disposition = "merge"
         /\ UniqueKeys(t, bronze0[t])
         /\ UniqueKeys(t, raw0[t]))
        => UniqueKeys(t, bronze[t])

\* C27 witness: a merge table reconciled with success from two raw rows,
\* one of a key bronze held and one of a key it did not hold.
C27_Witness ==
    \E t \in Tables :
        /\ Reconciled(t, "success")
        /\ TABLE_CONFIG[t].write_disposition = "merge"
        /\ UniqueKeys(t, bronze0[t]) /\ BagCardinality(bronze0[t]) >= 2
        /\ UniqueKeys(t, raw0[t]) /\ BagCardinality(raw0[t]) = 2
        /\ \E r, q \in DOMAIN raw0[t] :
             /\ Key(t, r) \in KeysOf(t, bronze0[t])
             /\ Key(t, q) \notin KeysOf(t, bronze0[t])

\* The previous call of transform_to_bronze ended table t's unit in error.
FailedBefore(t) == t \in DOMAIN results0 /\ results0[t].status = "error"

\* C28: a table's raw rows are still staged after its unit failed, and
\* after the table's next successful unit bronze holds every one of them,
\* as often as raw holds it.
C28_FailedRowsKept ==
    \A t \in Tables :
        /\ Reconciled(t, "error") => raw[t] = raw0[t]
        /\ (FailedBefore(t) /\ Reconciled(t, "success")) =>
             \A r \in DOMAIN raw0[t] :
                CopiesIn(Transfer(t, r), bronze[t]) >= raw0[t][r]

\* C28 witness: the unit of a table with two staged rows failed in the
\* previous call and succeeded in this one.
C28_Witness ==
    \E t \in Tables :
        /\ FailedBefore(t)
        /\ Reconciled(t, "success")
        /\ BagCardinality(raw0[t]) = 2
        /\ BagCardinality(bronze[t]) >= 2

----------------------------------------------------------------------------
(* Properties of the pipeline *)

\* The values the next extraction of table t may use as its cutoff.
Watermark(t) ==
    IF t \in DOMAIN dltState THEN {dltState[t]}
    ELSE get_last_filter_end(runlog, t, FALSE)

\* load_to_raw has just returned.
LoadStep == pc = "extracted" /\ pc' = "loaded"
\* The unit of work of table t has just ended.
UnitStep(t) == pc = "transform" /\ idx <= Len(TableOrder) /\ TableOrder[idx] = t /\ idx' = idx + 1

\* C6: when the last run reconciled with success rows it loaded for a
\* table, V being their greatest incremental-column value, the next load
\* of the table yields exactly the rows of the staged file whose value is
\* greater than V: none with a value <= V, every one with a greater value.
C6_WatermarkMonotonic ==
    pc = "loaded" =>
        \A t \in DOMAIN lastV \cap DOMAIN batch :
            /\ \A r \in batch[t] : r[IncCol(t)] > lastV[t]
            /\ \A r \in file_mapping[t] : r[IncCol(t)] > lastV[t] => r \in batch[t]

\* C6 witness: the next load yielded a row newer than V from a file that
\* also holds rows not newer than V.
C6_Witness ==
    /\ pc = "loaded"
    /\ \E t \in DOMAIN lastV \cap DOMAIN batch :
         /\ batch[t] # {}
         /\ \E r \in file_mapping[t] : r[IncCol(t)] <= lastV[t]

\* C9 (as claimed): the watermark of a table changes only in the step that
\* ends a successful unit of work of that table.
C9_OnlyReconciliationMovesWatermark ==
    [][\A t \in Tables :
         Watermark(t)' # Watermark(t) =>
            UnitStep(t) /\ results'[t].status = "success"]_vars

\* C9 (amended): the watermark of a table changes only in the step in which
\* load_to_raw returns, where it becomes the greatest incremental-column
\* value loaded for the table; no step of transform_to_bronze changes it,
\* whatever the outcome of the table's unit of work.
C9_LoadMovesWatermark ==
    [][\A t \in Tables :
         /\ Watermark(t)' # Watermark(t) => LoadStep /\ t \in DOMAIN batch'
         /\ (LoadStep /\ t \in DOMAIN batch' /\ batch'[t] # {}) =>
               Watermark(t)' = {MaxValue(t, batch'[t])}
         /\ pc = "transform" => Watermark(t)' = Watermark(t)]_vars

\* C9 witness: rows were loaded for a table and moved its watermark, and
\* the table's unit of work then failed.
C9_Witness ==
    \E t \in DOMAIN batch :
        /\ batch[t] # {}
        /\ Reconciled(t, "error")
        /\ SuccessEntries(runlog, t) = {}
        /\ dltState[t] = MaxValue(t, batch[t])
        /\ dltState[t] > DEFAULT_INITIAL_VALUE

\* C10 (as claimed): the step that ends a table's unit of work adds to the
\* run log an entry for that table with the unit's status.
C10_RunLogAppended ==
    [][\A t \in Tables :
         UnitStep(t) =>
            \E e \in runlog' \ runlog :
                /\ e.table_name = t
                /\ e.status = "success" <=> results'[t].status = "success"]_vars

\* C10 (amended): the step that ends a table's unit of work records the
\* unit's outcome in results and nowhere else: no step of the pipeline
\* adds, changes or removes a run-log entry.
C10_RunLogUntouched ==
    [][/\ runlog' = runlog
       /\ \A t \in Tables :
            UnitStep(t) =>
               /\ t \in DOMAIN results'
               /\ results'[t].status \in {"skipped", "success", "error"}]_vars

\* C10 witness: a table was reconciled with success from loaded rows and
\* the run log holds no entry for it.
C10_Witness ==
    \E t \in DOMAIN batch :
        /\ batch[t] # {}
        /\ Reconciled(t, "success")
        /\ {e \in runlog : e.table_name = t} = {}

----------------------------------------------------------------------------
(* Properties of get_last_filter_end *)

\* get_last_filter_end returned (no call of it raised).
LookedUp == pc = "done" /\ lookup.fault = "none"
\* The run-log rows of the looked-up table with status success.
Successes == {e \in runlog : e.table_name = lookup.table_name /\ e.status = "success"}
\* Those of them that carry a filter_end.
DatedSuccesses == {e \in Successes : e.filter_end # NULL}
\* e is a row of S completed no earlier than any row of S.
MostRecent(e, S) == e \in S /\ \A o \in S : o.run_completed_at <= e.run_completed_at

\* C11 (as claimed): get_last_filter_end returns the filter_end of the most
\* recently completed success entry of the table, and the sentinel when the
\* table has no success entry.
C11_LatestSuccess ==
    LookedUp =>
        IF Successes = {} THEN lookup.value = DEFAULT_INITIAL_VALUE
        ELSE \E e \in Successes :
                MostRecent(e, Successes) /\ lookup.value = e.filter_end

\* C11 (amended): get_last_filter_end returns the filter_end of a most
\* recently completed entry among the table's success entries that carry
\* a filter_end, and the sentinel when the table has no such entry;
\* failure entries, entries of other tables and success entries without
\* filter_end never affect the result.
C11_LatestDatedSuccess ==
    LookedUp =>
        IF DatedSuccesses = {} THEN lookup.value = DEFAULT_INITIAL_VALUE
        ELSE \E e \in DatedSuccesses :
                MostRecent(e, DatedSuccesses) /\ lookup.value = e.filter_end

\* The table has two success entries, the later one with the smaller
\* filter_end, and the log holds a row the query does not select: the
\* later entry's filter_end is returned.
C11_Witness ==
    /\ LookedUp
    /\ \E e, o \in DatedSuccesses :
         /\ e.run_completed_at > o.run_completed_at
         /\ e.filter_end < o.filter_end
         /\ lookup.value = e.filter_end
    /\ runlog \ DatedSuccesses # {}

\* C12 (as claimed): whichever step of the lookup fails,
\* get_last_filter_end returns the sentinel and raises nothing.
C12_LookupFailureNeverPropagates ==
    (pc = "done" /\ lookup.fault # "none") =>
        ~lookup.raised /\ lookup.value = DEFAULT_INITIAL_VALUE

----------------------------------------------------------------------------
(* Properties of a batch of files *)

\* The first run of the pipeline has ended with an exception of
\* stage_inputs or of load_to_raw.
FirstRunFailed == pc = "idle" /\ runs = 1 /\ failures = 1
\* raw.<t> holds the rows of t's spreadsheet a first extraction yields.
FileLoaded(t) ==
    \A r \in FilterNewer(t, drive[t], DEFAULT_INITIAL_VALUE) : BagIn(r, raw[t])
\* The spreadsheet of t has rows a first extraction yields.
HasNewRows(t) == FilterNewer(t, drive[t], DEFAULT_INITIAL_VALUE) # {}

\* C13 (as claimed): when the download or the parsing of one file fails,
\* every other file selected in the run is still staged and loaded to raw.
C13_FileFailureIsolated ==
    FirstRunFailed =>
        \E bad \in DOMAIN drive : \A t \in DOMAIN drive \ {bad} : FileLoaded(t)

\* C13 (amended): when the download or the parsing of one file fails, the
\* exception leaves stage_inputs or load_to_raw and the batch is aborted:
\* no file selected in the run is loaded to raw and no cursor is stored.
C13_FailureAbortsBatch ==
    FirstRunFailed =>
        /\ \A t \in Tables : raw[t] = EmptyBag
        /\ dltState = << >>

\* Both files were staged, both have rows to load, and the load failed.
C13_Witness ==
    /\ FirstRunFailed
    /\ file_mapping = drive
    /\ \A t \in DOMAIN drive : HasNewRows(t)
    /\ \A t \in Tables : raw[t] = EmptyBag

----------------------------------------------------------------------------
(* Properties of parse_drive_filename *)

\* parse_drive_filename has returned.
Parsed == pc = "parsed"
\* "_<year>.xlsx"
YearTail(y) == <<"_">> \o Str(y) \o XLSX
\* The tables of TABLE_CONFIG named crm_<base> that are year-partitioned.
Partitioned(base) ==
    {t \in Tables : Chars[t] = CRM_ \o base /\ TABLE_CONFIG[t].year_partitioned}
\* The file of a table that is not year-partitioned: "all_", the table's
\* name without "crm_", and ".xlsx".
FileOf(t) ==
    <<"a", "l", "l", "_">> \o SubSeq(Chars[t], Len(CRM_) + 1, Len(Chars[t])) \o XLSX

\* C14: a filename <base>_<year>.xlsx whose year is not the current
\* calendar year is rejected (None), whatever <base> is.
C14_StaleYearRejected ==
    Parsed =>
        \A y \in Years :
            (EndsWith(parse.filename, YearTail(y)) /\ y # parse.year)
            => parse.table_name = "None"

\* The partition of another year of a year-partitioned table was rejected.
C14_Witness ==
    /\ Parsed
    /\ \E y \in Years \ {parse.year} :
         /\ EndsWith(parse.filename, YearTail(y))
         /\ Partitioned(RemoveSuffix(parse.filename, YearTail(y))) # {}
    /\ parse.table_name = "None"

\* C15 (as claimed): <base>_<current year>.xlsx gives crm_<base> when that
\* is a year-partitioned table of TABLE_CONFIG and None when it is not;
\* every other filename but the file of the table that is not partitioned
\* gives None.
C15_OnlyCurrentPartitions ==
    Parsed =>
        IF EndsWith(parse.filename, YearTail(parse.year))
        THEN LET P == Partitioned(RemoveSuffix(parse.filename, YearTail(parse.year)))
             IN  IF P # {} THEN parse.table_name \in P
                 ELSE parse.table_name = "None"
        ELSE (\A t \in Tables : parse.filename # FileOf(t))
             => parse.table_name = "None"

\* C16: the file of a table that is not year-partitioned gives that table
\* in every calendar year.
C16_NonPartitionedAnyYear ==
    Parsed =>
        \A t \in Tables :
            (~TABLE_CONFIG[t].year_partitioned /\ parse.filename = FileOf(t))
            => parse.table_name = t

\* all_properties.xlsx was classified in a year after the first.
C16_Witness ==
    /\ Parsed
    /\ parse.filename = FileOf("crm_properties")
    /\ parse.year > FirstYear
    /\ parse.table_name = "crm_properties"

----------------------------------------------------------------------------
(* Properties of table_data *)

\* table_data has yielded its rows.
Yielded == pc = "yielded"
\* The incremental column is a column of the parsed spreadsheet.
HasIncrementalColumn == IncCol(extraction.table_name) \in extraction.df.columns
\* The row's incremental-column value is a date after w.
After(r, w) ==
    LET v == r[IncCol(extraction.table_name)] IN v # NULL /\ v > w

\* C17: when the incremental column is present and the watermark W is
\* greater than the sentinel, the rows yielded are exactly the rows whose
\* incremental-column value is strictly greater than W.
C17_StrictFilter ==
    (Yielded /\ HasIncrementalColumn
             /\ extraction.last_value > DEFAULT_INITIAL_VALUE)
    => extraction.yielded = {r \in extraction.df.rows : After(r, extraction.last_value)}

\* The file has a row older than W, a row equal to W and a row newer
\* than W: the newer row alone was yielded.
C17_Witness ==
    /\ Yielded
    /\ HasIncrementalColumn
    /\ extraction.last_value > DEFAULT_INITIAL_VALUE
    /\ \E r \in extraction.df.rows :
         r[IncCol(extraction.table_name)] = extraction.last_value
    /\ \E r \in extraction.df.rows :
         r[IncCol(extraction.table_name)] \in 0..(extraction.last_value - 1)
    /\ Cardinality(extraction.yielded) = 1

\* C18 (as claimed): when the watermark is the sentinel, no filter is
\* applied and every row of the parsed file is yielded.
C18_FirstRunYieldsAll ==
    (Yielded /\ extraction.last_value = DEFAULT_INITIAL_VALUE)
    => extraction.yielded = extraction.df.rows

----------------------------------------------------------------------------
(* Properties of _get_column_expressions *)

Built == colexpr.call = "_get_column_expressions" /\ pc = "expressions"
NamesOf(schema) == {schema[i].column_name : i \in DOMAIN schema}
TypeIn(schema, c) ==
    (CHOOSE r \in {schema[i] : i \in DOMAIN schema} : r.column_name = c).data_type
Listed(cols) == {cols[i] : i \in DOMAIN cols}
Position(schema, c) == CHOOSE i \in DOMAIN schema : schema[i].column_name = c
Bookkeeping(c) == StartsWith(ColChars[c], DLT_)
Artifact(c) == StartsWith(ColChars[c], UNNAMED)

\* The data columns come first and the _dlt_ columns last.
DataFirst(cols) ==
    \A i, j \in DOMAIN cols : (i < j /\ Bookkeeping(cols[i])) => Bookkeeping(cols[j])

\* The insert list and the select list name the same columns in the same
\* order.
SameColumns(insert_cols, select_exprs) ==
    /\ Len(insert_cols) = Len(select_exprs)
    /\ \A i \in DOMAIN insert_cols : select_exprs[i].col = insert_cols[i]

\* C23 as stated: the column list is exactly the set of columns present in
\* both the raw and the bronze schema, data columns first and _dlt_ columns
\* last; a column present only in raw never appears, and the insert list
\* and the select list have the same columns in the same order.
C23_ExactlyCommonColumns ==
    Built =>
        /\ Listed(colexpr.insert_cols) = NamesOf(colexpr.raw) \cap NamesOf(colexpr.bronze)
        /\ DataFirst(colexpr.insert_cols)
        /\ SameColumns(colexpr.insert_cols, colexpr.select_exprs)

\* C23 as the code has it: the list holds, once each, exactly the columns
\* present in both schemas whose name does not start with "unnamed"; data
\* columns first and _dlt_ columns last, each group in the ordinal order
\* of raw; the insert list and the select list have the same columns in
\* the same order.
C23_CommonColumnsButUnnamed ==
    Built =>
        LET cols == colexpr.insert_cols IN
        /\ Listed(cols) =
             {c \in NamesOf(colexpr.raw) \cap NamesOf(colexpr.bronze) : ~Artifact(c)}
        /\ \A i, j \in DOMAIN cols : cols[i] = cols[j] => i = j
        /\ DataFirst(cols)
        /\ \A i, j \in DOMAIN cols :
             (i < j /\ Bookkeeping(cols[i]) = Bookkeeping(cols[j]))
                => Position(colexpr.raw, cols[i]) < Position(colexpr.raw, cols[j])
        /\ SameColumns(cols, colexpr.select_exprs)

\* raw lists a _dlt_ column before a data column and holds an "unnamed"
\* column that bronze holds too; the list built has the data column first.
C23_Witness ==
    /\ Built
    /\ \E i, j \in DOMAIN colexpr.raw :
         /\ i < j
         /\ Bookkeeping(colexpr.raw[i].column_name)
         /\ colexpr.raw[j].column_name = "name"
    /\ \E c \in NamesOf(colexpr.raw) \cap NamesOf(colexpr.bronze) : Artifact(c)
    /\ Len(colexpr.insert_cols) = 2
    /\ colexpr.insert_cols[1] = "name"
    /\ Bookkeeping(colexpr.insert_cols[2])

\* C24: the select expression of a selected column is a cast to the
\* column's bronze type if and only if its raw type differs from its
\* bronze type; a column with equal types is referenced without a cast.
C24_CastIffTypesDiffer ==
    Built =>
        \A i \in DOMAIN colexpr.select_exprs :
            LET e == colexpr.select_exprs[i]
                raw_type == TypeIn(colexpr.raw, e.col)
                bronze_type == TypeIn(colexpr.bronze, e.col)
            IN  /\ (e.cast # "none") <=> (raw_type # bronze_type)
                /\ e.cast # "none" => e.cast = bronze_type

\* One selected column is cast and another is referenced as it is.
C24_Witness ==
    /\ Built
    /\ \E i, j \in DOMAIN colexpr.select_exprs :
         /\ colexpr.select_exprs[i].cast = "timestamp without time zone"
         /\ TypeIn(colexpr.raw, colexpr.select_exprs[i].col) = "character varying"
         /\ colexpr.select_exprs[j].cast = "none"

----------------------------------------------------------------------------
(* Properties of database_update.main *)

\* C21: a run of main with --dry-run performs no write to any external
\* store: no upload to the file store, no Parquet file, no Postgres write
\* and no BigQuery write.
C21_DryRunWritesNothing ==
    (cli.call = "main" /\ cli.args.dry_run) => cli.writes = {}

----------------------------------------------------------------------------
(* Properties of save_selected_to_sql *)

\* Both attempts of the i-th table of the selection raised.
BothFailed(i) ==
    /\ sqlload.first[i] \notin {"pending", "none"}
    /\ sqlload.second[i] \notin {"pending", "not tried", "none"}

\* C29: when both the truncate-and-append attempt and the drop-and-recreate
\* attempt of a table fail, the error is printed for that table and no
\* exception leaves save_selected_to_sql.
C29_BothFailuresCaught ==
    sqlload.call = "save_selected_to_sql" =>
        \A i \in 1..Len(SqlSelection) :
            BothFailed(i) =>
                /\ sqlload.printed[i] = "Error loading"
                /\ sqlload.raised = "none"
                /\ pc # "raised"

----------------------------------------------------------------------------
(* Properties of fetch_and_tag_unsubscribed *)

\* C30: when the function returns a DataFrame, a tagging request answered
\* 204 was made for every contact in it, also for a contact whose request
\* was answered 429.
C30_EveryReturnedContactTagged ==
    (pc = "returned" /\ tagging.call = "fetch_and_tag_unsubscribed"
                     /\ tagging.result = "DataFrame")
    => tagging.returned \subseteq tagging.tagged

====
